---------------------------- MODULE Spec2Model ----------------------------
(***************************************************************************)
(* A model of the CPU forward pipeline of Leela Zero (src/CPUPipe.cpp):    *)
(* the Winograd input and output transforms, the batched matrix multiply,  *)
(* the 1x1 head convolution, batch normalisation, the squeeze-and-         *)
(* excitation step and the forward pass that chains them.                  *)
(*                                                                         *)
(* Numbers.  A C++ float is modelled as a fixed-point number: the integer  *)
(* n stands for n / FX.  A product is rounded down to a multiple of 1/FX,  *)
(* sums are exact.  Vectors are functions on 0..n-1, as in the source.     *)
(***************************************************************************)
EXTENDS Integers, Sequences, FiniteSets, TLC

(***************************************************************************)
(* Bounds of the model.                                                    *)
(***************************************************************************)
\* fixed-point denominator of the float model
FX == 16
\* board edge (the program is built with one compile-time board size)
BOARD_SIZE == 5
\* largest channel count handed to a stand-alone transform
MaxC == 9
\* the number of input planes of the network (Network::INPUT_CHANNELS)
INPUT_CHANNELS == 3
\* largest number of filters of a residual tower
MaxFilters == 3
\* largest number of residual blocks of a tower
MaxBlocks == 2

(***************************************************************************)
(* Program constants.                                                      *)
(***************************************************************************)
WINOGRAD_ALPHA == 6
WINOGRAD_M == 4
buffersize == 32
OUTPUTS_POLICY == 2
OUTPUTS_VALUE == 1

WINOGRAD_TILE == WINOGRAD_ALPHA * WINOGRAD_ALPHA
WINOGRAD_WTILES ==
    BOARD_SIZE \div WINOGRAD_M + (IF BOARD_SIZE % WINOGRAD_M # 0 THEN 1 ELSE 0)
WINOGRAD_P == WINOGRAD_WTILES * WINOGRAD_WTILES
NUM_INTERSECTIONS == BOARD_SIZE * BOARD_SIZE
Wpad == 2 + WINOGRAD_M * WINOGRAD_WTILES

(***************************************************************************)
(* The float model.                                                        *)
(***************************************************************************)
\* the content of storage that was never written
Uninit == 0 - 999983

Flt(n) == n * FX
Mul(a, b) == (a * b) \div FX
SQ2 == (14142 * FX) \div 10000

Zeros(n) == [i \in 0 .. n - 1 |-> 0]
Junk(n) == [i \in 0 .. n - 1 |-> Uninit]
Size(v) == Cardinality(DOMAIN v)
\* a read of v[i]; a read outside the vector yields storage never written
Rd(v, i) == IF i \in DOMAIN v THEN v[i] ELSE Uninit
Max(a, b) == IF a >= b THEN a ELSE b

\* forces a vector to be computed once, where it is stored
Stored(v) == IF v = v THEN v ELSE v

RECURSIVE SumF(_, _)
\* f[0] + ... + f[n-1]
SumF(f, n) == IF n <= 0 THEN 0 ELSE f[n - 1] + SumF(f, n - 1)

Sum6(f(_)) == f(0) + f(1) + f(2) + f(3) + f(4) + f(5)

(***************************************************************************)
(* winograd_transform_in                                                   *)
(***************************************************************************)
Bt ==
    << Flt(1), 0,      0 - ((5 * FX) \div 2), 0,                     Flt(1), 0,
       0, 0 - SQ2,     0 - Flt(2),            SQ2 \div 2,            Flt(1), 0,
       0, SQ2,         0 - Flt(2),            0 - (SQ2 \div 2),      Flt(1), 0,
       0, 0 - (SQ2 \div 2), 0 - (FX \div 2),  SQ2,                   Flt(1), 0,
       0, SQ2 \div 2,  0 - (FX \div 2),       0 - SQ2,               Flt(1), 0,
       0, Flt(1),      0,                     0 - ((5 * FX) \div 2), 0,      Flt(1) >>

BtAt(i, k) == Bt[i * WINOGRAD_ALPHA + k + 1]

\* transpose(B).x.B of the 6x6 window of the padded plane at (yin, xin):
\* element i*6+j of the result
WinoInTile(in_pad, yin, xin) ==
    LET T1(i, j) == Sum6(LAMBDA k : Mul(BtAt(i, k), in_pad[(yin + k) * Wpad + xin + j]))
    IN  [e \in 0 .. WINOGRAD_TILE - 1 |->
            LET i == e \div WINOGRAD_ALPHA
                j == e % WINOGRAD_ALPHA
            IN  Sum6(LAMBDA k : Mul(T1(i, k), BtAt(j, k)))]

\* the state of a call at entry: in_pad zeroed, buffer not initialised
TinInit(in, V, C) ==
    [ pc |-> IF C > 0 THEN "load" ELSE "done",
      C |-> C, in |-> in, V |-> V,
      ch |-> 0, block_y |-> 0, block_x |-> 0,
      in_pad |-> Zeros(Wpad * Wpad),
      buffer |-> Junk(buffersize * WINOGRAD_TILE),
      buffer_offset |-> 0, buffer_entries |-> 0,
      wcount |-> [i \in DOMAIN V |-> 0],
      in_hi |-> 0, v_hi |-> 0, buf_hi |-> 0 ]

\* the copy of channel ch into the padded plane
TinLoad(s) ==
    LET W == BOARD_SIZE
        H == BOARD_SIZE
    IN  [s EXCEPT
          !.in_pad = [p \in 0 .. Wpad * Wpad - 1 |->
                        LET y == p \div Wpad
                            x == p % Wpad
                        IN  IF y >= 1 /\ y <= H /\ x >= 1 /\ x <= W
                            THEN Rd(s.in, s.ch * (W * H) + (y - 1) * W + (x - 1))
                            ELSE s.in_pad[p]],
          !.in_hi = Max(@, (s.ch + 1) * (W * H)),
          !.block_y = 0, !.block_x = 0,
          !.pc = "tile"]

\* one tile: the transform into the staging buffer
TinTile(s) ==
    LET yin == WINOGRAD_M * s.block_y
        xin == WINOGRAD_M * s.block_x
        t == WinoInTile(s.in_pad, yin, xin)
    IN  [s EXCEPT
          !.buffer = [b \in DOMAIN s.buffer |->
                        LET d == b - s.buffer_entries
                        IN  IF d >= 0 /\ d % buffersize = 0
                                /\ d \div buffersize < WINOGRAD_TILE
                            THEN t[d \div buffersize] ELSE s.buffer[b]],
          !.buf_hi = Max(@, buffersize * (WINOGRAD_TILE - 1) + s.buffer_entries + 1),
          !.buffer_offset =
              IF s.buffer_entries = 0
              THEN s.ch * WINOGRAD_P + s.block_y * WINOGRAD_WTILES + s.block_x
              ELSE @,
          !.buffer_entries = @ + 1,
          !.pc = "flush"]

\* (a variant that forgets the last, partly filled batch)
TinFlushCondFullOnly(s) == s.buffer_entries >= buffersize

TinFlushCond(s) ==
    \/ s.buffer_entries >= buffersize
    \/ (s.ch = s.C - 1 /\ s.block_x = WINOGRAD_WTILES - 1
                       /\ s.block_y = WINOGRAD_WTILES - 1)

\* the bands whose row of the scatter writes V[idx]
TinWriters(s, idx) ==
    {i \in 0 .. WINOGRAD_TILE - 1 :
        LET e == idx - i * s.C * WINOGRAD_P - s.buffer_offset
        IN  e >= 0 /\ e < s.buffer_entries}

TinMaxOf(S) == CHOOSE i \in S : \A j \in S : j <= i

\* the scatter of the staged tiles into V
TinFlush(s) ==
    [s EXCEPT
      !.V = [idx \in DOMAIN s.V |->
                LET w == TinWriters(s, idx)
                IN  IF w = {} THEN s.V[idx]
                    ELSE LET i == TinMaxOf(w)
                         IN  Rd(s.buffer, i * buffersize
                                 + (idx - i * s.C * WINOGRAD_P - s.buffer_offset))],
      !.wcount = [idx \in DOMAIN s.V |-> s.wcount[idx] + Cardinality(TinWriters(s, idx))],
      !.v_hi = Max(@, (WINOGRAD_TILE - 1) * s.C * WINOGRAD_P
                        + s.buffer_offset + s.buffer_entries),
      !.buffer_entries = 0]

\* the loop increments
TinAdvance(s) ==
    IF s.block_x + 1 < WINOGRAD_WTILES
    THEN [s EXCEPT !.block_x = @ + 1, !.pc = "tile"]
    ELSE IF s.block_y + 1 < WINOGRAD_WTILES
    THEN [s EXCEPT !.block_x = 0, !.block_y = @ + 1, !.pc = "tile"]
    ELSE IF s.ch + 1 < s.C
    THEN [s EXCEPT !.ch = @ + 1, !.pc = "load"]
    ELSE [s EXCEPT !.pc = "done"]

TinStep(s) ==
    CASE s.pc = "load" -> TinLoad(s)
      [] s.pc = "tile" -> TinTile(s)
      [] s.pc = "flush" -> IF TinFlushCond(s) THEN TinAdvance(TinFlush(s))
                           ELSE TinAdvance(s)
      [] OTHER -> s

RECURSIVE TinRun(_)
TinRun(s) == IF s.pc = "done" THEN s ELSE TinRun(TinStep(s))

\* winograd_transform_in(in, V, C): the final state of the call
winograd_transform_in(in, V, C) == TinRun(TinInit(in, V, C))

(***************************************************************************)
(* winograd_transform_out                                                  *)
(***************************************************************************)
At ==
    << Flt(1), Flt(1),     Flt(1),           Flt(1),  Flt(1),        0,
       0,      SQ2 \div 2, 0 - (SQ2 \div 2), SQ2,     0 - SQ2,       0,
       0,      FX \div 2,  FX \div 2,        Flt(2),  Flt(2),        0,
       0,      SQ2 \div 4, 0 - (SQ2 \div 4), 2 * SQ2, 0 - (2 * SQ2), Flt(1) >>

AtAt(i, q) == At[i * WINOGRAD_ALPHA + q + 1]

\* the index of the tile at block row block_y, block column block_x
ToutTileIndexTransposed(block_y, block_x) == block_x * WINOGRAD_WTILES + block_y

ToutTileIndex(block_y, block_x) == block_y * WINOGRAD_WTILES + block_x

\* transpose(A).temp_m.A of tile b of channel k: element i*4+j of the 4x4 block
WinoOutTile(M, K, k, b) ==
    LET temp_m(xi, nu) ==
            Rd(M, (xi * WINOGRAD_ALPHA + nu) * K * WINOGRAD_P + k * WINOGRAD_P + b)
        temp(i, j) == Sum6(LAMBDA q : Mul(AtAt(i, q), temp_m(q, j)))
    IN  [e \in 0 .. WINOGRAD_M * WINOGRAD_M - 1 |->
            LET i == e \div WINOGRAD_M
                j == e % WINOGRAD_M
            IN  Sum6(LAMBDA q : Mul(temp(i, q), AtAt(j, q)))]

\* (a variant that writes the whole 4x4 block)
ToutClipNone(y, x, i, j) == TRUE

\* the test that keeps a cell of the 4x4 block
ToutClip(y, x, i, j) == y + i < BOARD_SIZE /\ x + j < BOARD_SIZE

ToutInit(M, Y, K) ==
    [ pc |-> IF K > 0 THEN "tile" ELSE "done",
      K |-> K, M |-> M, Y |-> Y,
      k |-> 0, block_x |-> 0, block_y |-> 0,
      wcount |-> [i \in DOMAIN Y |-> 0],
      clipped |-> 0, m_hi |-> 0, y_hi |-> 0 ]

\* the cells (i, j) of the block at y_ind whose write lands on Y[idx]
ToutWriters(y, x, y_ind, idx) ==
    {c \in (0 .. WINOGRAD_M - 1) \X (0 .. WINOGRAD_M - 1) :
        ToutClip(y, x, c[1], c[2]) /\ y_ind + c[1] * BOARD_SIZE + c[2] = idx}

ToutLast(S) ==
    CHOOSE c \in S : \A d \in S : d[1] < c[1] \/ (d[1] = c[1] /\ d[2] <= c[2])

\* one tile: gather from M, transform, write the clipped block into Y
ToutTile(s) ==
    LET W == BOARD_SIZE
        H == BOARD_SIZE
        x == WINOGRAD_M * s.block_x
        y == WINOGRAD_M * s.block_y
        b == ToutTileIndex(s.block_y, s.block_x)
        o == WinoOutTile(s.M, s.K, s.k, b)
        y_ind == s.k * H * W + y * W + x
        kept == {c \in (0 .. WINOGRAD_M - 1) \X (0 .. WINOGRAD_M - 1) :
                    ToutClip(y, x, c[1], c[2])}
        tops == {y_ind + c[1] * W + c[2] + 1 : c \in kept}
        t == [s EXCEPT
               !.Y = [idx \in DOMAIN s.Y |->
                        LET w == ToutWriters(y, x, y_ind, idx)
                        IN  IF w = {} THEN s.Y[idx]
                            ELSE LET c == ToutLast(w)
                                 IN  o[c[1] * WINOGRAD_M + c[2]]],
               !.wcount = [idx \in DOMAIN s.Y |->
                             s.wcount[idx] + Cardinality(ToutWriters(y, x, y_ind, idx))],
               !.clipped = @ + (WINOGRAD_M * WINOGRAD_M - Cardinality(kept)),
               !.m_hi = Max(@, (WINOGRAD_TILE - 1) * s.K * WINOGRAD_P
                                 + s.k * WINOGRAD_P + b + 1),
               !.y_hi = IF tops = {} THEN @
                        ELSE Max(@, CHOOSE m \in tops : \A n \in tops : n <= m)]
    IN  IF s.block_y + 1 < WINOGRAD_WTILES
        THEN [t EXCEPT !.block_y = @ + 1]
        ELSE IF s.block_x + 1 < WINOGRAD_WTILES
        THEN [t EXCEPT !.block_y = 0, !.block_x = @ + 1]
        ELSE IF s.k + 1 < s.K
        THEN [t EXCEPT !.block_y = 0, !.block_x = 0, !.k = @ + 1]
        ELSE [t EXCEPT !.pc = "done"]

RECURSIVE ToutRun(_)
ToutRun(s) == IF s.pc = "done" THEN s ELSE ToutRun(ToutTile(s))

\* winograd_transform_out(M, Y, K): the final state of the call
winograd_transform_out(M, Y, K) == ToutRun(ToutInit(M, Y, K))

(***************************************************************************)
(* winograd_sgemm                                                          *)
(***************************************************************************)
\* M[b][k][p] = sum over c of U[b][c][k] * V[b][c][p], for each of the 36
\* bands b; M is overwritten (beta = 0)
winograd_sgemm(U, V, M, C, K) ==
    LET P == WINOGRAD_P
    IN  [ M |-> [idx \in DOMAIN M |->
                   IF idx < WINOGRAD_TILE * K * P
                   THEN LET b == idx \div (K * P)
                            k == (idx % (K * P)) \div P
                            p == idx % P
                        IN  SumF([c \in 0 .. C - 1 |->
                                    Mul(Rd(U, b * K * C + c * K + k),
                                        Rd(V, b * C * P + c * P + p))], C)
                   ELSE M[idx]],
          u_hi |-> WINOGRAD_TILE * K * C,
          v_hi |-> WINOGRAD_TILE * C * P,
          m_hi |-> WINOGRAD_TILE * K * P ]

\* (a variant that reads as many planes as there are output channels)
ConvInputChannelsAsOutputs(U, outputs) == outputs

\* the channel count winograd_convolve3 derives from the size of U
ConvInputChannels(U, outputs) == Size(U) \div (outputs * WINOGRAD_TILE)

(***************************************************************************)
(* convolve<1>, avg_pool, relu, innerproduct, batchnorm                    *)
(***************************************************************************)
\* im2col<1>: the first channels * NUM_INTERSECTIONS cells of the input
im2col1(channels, input) ==
    [i \in 0 .. channels * NUM_INTERSECTIONS - 1 |-> Rd(input, i)]

convolve1(outputs, input, weights, biases, output) ==
    LET input_channels == Size(weights) \div Size(biases)
        filter_dim == input_channels
        col == Stored(im2col1(input_channels, input))
    IN  [idx \in DOMAIN output |->
            IF idx < outputs * NUM_INTERSECTIONS
            THEN LET o == idx \div NUM_INTERSECTIONS
                     b == idx % NUM_INTERSECTIONS
                 IN  SumF([c \in 0 .. filter_dim - 1 |->
                             Mul(Rd(weights, o * filter_dim + c),
                                 col[c * NUM_INTERSECTIONS + b])], filter_dim)
                     + Rd(biases, o)
            ELSE output[idx]]

avg_pool(channels, input, output) ==
    [c \in DOMAIN output |->
        IF c < channels
        THEN SumF([b \in 0 .. NUM_INTERSECTIONS - 1 |->
                     Rd(input, c * NUM_INTERSECTIONS + b)], NUM_INTERSECTIONS)
             \div NUM_INTERSECTIONS
        ELSE output[c]]

\* (a variant that leaves the data as it is)
reluNone(spatial_size, data) == data

relu(spatial_size, data) ==
    [b \in DOMAIN data |->
        IF b < spatial_size THEN (IF data[b] > 0 THEN data[b] ELSE 0)
        ELSE data[b]]

innerproduct(inputs, outputs, input, weights, biases, output) ==
    [o \in DOMAIN output |->
        IF o < outputs
        THEN SumF([i \in 0 .. inputs - 1 |->
                     Mul(Rd(weights, o * inputs + i), Rd(input, i))], inputs)
             + Rd(biases, o)
        ELSE output[o]]

lambda_ReLU(val) == IF val > 0 THEN val ELSE 0

\* batchnorm<NUM_INTERSECTIONS> without eltwise
batchnorm(channels, data, means, stddevs) ==
    [idx \in DOMAIN data |->
        IF idx < channels * NUM_INTERSECTIONS
        THEN LET c == idx \div NUM_INTERSECTIONS
             IN  lambda_ReLU(Mul(Rd(stddevs, c), data[idx] - Rd(means, c)))
        ELSE data[idx]]

batchnorm_no_relu(channels, data, means, stddevs) ==
    [idx \in DOMAIN data |->
        IF idx < channels * NUM_INTERSECTIONS
        THEN LET c == idx \div NUM_INTERSECTIONS
             IN  Mul(Rd(stddevs, c), data[idx] - Rd(means, c))
        ELSE data[idx]]

\* 1 / (1 + exp(-val)) at the precision of the model: the piecewise linear
\* approximation with breakpoints at 1, 2.375 and 5
SigPos(v) ==
    IF v >= 5 * FX THEN FX
    ELSE IF 8 * v >= 19 * FX THEN v \div 32 + (27 * FX) \div 32
    ELSE IF v >= FX THEN v \div 8 + (5 * FX) \div 8
    ELSE v \div 4 + FX \div 2

lambda_Sig(val) == IF val < 0 THEN FX - SigPos(0 - val) ELSE SigPos(val)

(***************************************************************************)
(* The weight set (ForwardPipeWeights) and the pipeline instance.          *)
(***************************************************************************)
\* the element i of a weight list; a list read past its end yields an
\* empty vector
Entry(list, i) == IF i \in DOMAIN list THEN list[i] ELSE Zeros(0)

\* the members of a CPUPipe after construction
NoWeights == <<0, 0>>
InstInit ==
    [ m_input_channels |-> 0,
      m_weights |-> NoWeights,
      m_conv_pol_w |-> Zeros(0), m_conv_pol_b |-> Zeros(0),
      m_conv_val_w |-> Zeros(0), m_conv_val_b |-> Zeros(0),
      \* the outputs argument of the last push_weights, and whether that call
      \* replaced head weights of another size
      outputs |-> 0, resized |-> FALSE ]

\* CPUPipe::initialize
initialize(I, channels) == [I EXCEPT !.m_input_channels = channels]

\* std::vector::resize(n, fill)
Resize(v, n, fill) == [i \in 0 .. n - 1 |-> IF i \in DOMAIN v THEN v[i] ELSE fill]

\* (a variant that sizes the bias array like the weight array)
HeadBiasLenAll(w, outputs) == Size(w)

\* the length push_weights gives a head's bias array
HeadBiasLen(w, outputs) == Size(w) \div outputs

\* CPUPipe::push_weights(_, _, outputs, weights): wid names the weight set,
\* ws is the weight set
push_weights(I, outputs, wid, ws) ==
    [I EXCEPT
      !.m_weights = wid,
      !.m_conv_pol_w = ws.m_conv_pol_w,
      !.m_conv_pol_b = Resize(I.m_conv_pol_b, HeadBiasLen(ws.m_conv_pol_w, outputs), 0),
      !.m_conv_val_w = ws.m_conv_val_w,
      !.m_conv_val_b = Resize(I.m_conv_val_b, HeadBiasLen(ws.m_conv_val_w, outputs), 0),
      !.outputs = outputs,
      !.resized = Size(I.m_conv_pol_w) > 0
                    /\ Size(I.m_conv_pol_w) # Size(ws.m_conv_pol_w)]

(***************************************************************************)
(* CPUPipe::forward, statement by statement.  c holds the locals of one    *)
(* call, sc the scratch buffers V and M, I the members, ws the weight set. *)
(* Every step yields the new c and sc.                                     *)
(***************************************************************************)
CallIdle ==
    [ pc |-> "idle", in_id |-> 0, input |-> Zeros(0),
      output_pol |-> Zeros(0), output_val |-> Zeros(0),
      conv_out |-> Zeros(0), conv_in |-> Zeros(0), res |-> Zeros(0),
      se_pool |-> Zeros(0), se_fc1 |-> Zeros(0), se_fc2 |-> Zeros(0),
      i |-> 0, cv |-> [layer |-> 0, src |-> "input", ret |-> "bn0", C |-> 0],
      \* what the call has done so far
      log |-> <<>>, in_hi |-> 0, in_planes |-> 0, v_hi |-> 0, m_hi |-> 0, u_ok |-> TRUE,
      cv_in |-> Zeros(0), stem |-> Zeros(0), blk_in |-> Zeros(0),
      blk_bn1 |-> Zeros(0), blk_cv2 |-> Zeros(0), blk_feat |-> Zeros(0),
      pre_feat |-> Zeros(0), pre_res |-> Zeros(0), pre_fc2 |-> Zeros(0),
      fc1_raw |-> Zeros(0), fc2_in |-> Zeros(0),
      fused |-> Zeros(0), pol_in |-> Zeros(0), val_in |-> Zeros(0),
      blocks |-> 0, repeat |-> FALSE, joined |-> FALSE ]

ScratchNone == [V |-> Zeros(0), M |-> Zeros(0)]

\* the caller hands in the input and the two output arrays
FwdCall(c, in_id, input, repeat) ==
    [CallIdle EXCEPT
      !.pc = "alloc", !.in_id = in_id, !.input = input, !.repeat = repeat,
      !.output_pol = Zeros(OUTPUTS_POLICY * NUM_INTERSECTIONS),
      !.output_val = Zeros(OUTPUTS_VALUE * NUM_INTERSECTIONS)]

\* (a variant that sizes V for the residual layers only)
ScratchChannelsTower(output_channels) == output_channels

\* the channel count V is sized for
ScratchChannels(output_channels) == Max(output_channels, INPUT_CHANNELS)

FwdAlloc(c, sc, I) ==
    LET output_channels == I.m_input_channels
        input_channels == ScratchChannels(output_channels)
    IN  [ c |-> [c EXCEPT
                  !.conv_out = Zeros(output_channels * NUM_INTERSECTIONS),
                  !.se_pool = Zeros(output_channels),
                  !.se_fc1 = Zeros(output_channels \div 2),
                  !.se_fc2 = Zeros(output_channels * 2),
                  !.cv = [layer |-> 0, src |-> "input", ret |-> "bn0", C |-> 0],
                  !.pc = "tin"],
          sc |-> [V |-> Zeros(WINOGRAD_TILE * input_channels * WINOGRAD_P),
                  M |-> Zeros(WINOGRAD_TILE * output_channels * WINOGRAD_P)] ]

\* winograd_convolve3, first call: winograd_transform_in
ConvTin(c, sc, I, ws) ==
    LET outputs == I.m_input_channels
        U == Entry(ws.m_conv_weights, c.cv.layer)
        C == ConvInputChannels(U, outputs)
        src == IF c.cv.src = "input" THEN c.input ELSE c.conv_in
        r == winograd_transform_in(src, sc.V, C)
    IN  [ c |-> [c EXCEPT
                  !.cv.C = C,
                  !.cv_in = src,
                  !.in_hi = IF c.cv.src = "input" THEN Max(@, r.in_hi) ELSE @,
                  !.in_planes = IF c.cv.src = "input" THEN C ELSE @,
                  !.u_ok = @ /\ r.in_hi <= Size(src),
                  !.v_hi = Max(@, r.v_hi),
                  !.log = Append(@, <<"conv", c.cv.layer>>),
                  !.pc = "mm"],
          sc |-> [sc EXCEPT !.V = Stored(r.V)] ]

\* winograd_convolve3, second call: winograd_sgemm
ConvMM(c, sc, I, ws) ==
    LET outputs == I.m_input_channels
        U == Entry(ws.m_conv_weights, c.cv.layer)
        r == winograd_sgemm(U, sc.V, sc.M, c.cv.C, outputs)
    IN  [ c |-> [c EXCEPT
                  !.u_ok = @ /\ r.u_hi <= Size(U),
                  !.v_hi = Max(@, r.v_hi),
                  !.m_hi = Max(@, r.m_hi),
                  !.pc = "tout"],
          sc |-> [sc EXCEPT !.M = Stored(r.M)] ]

\* winograd_convolve3, third call: winograd_transform_out into conv_out
ConvTout(c, sc, I) ==
    LET outputs == I.m_input_channels
        r == winograd_transform_out(sc.M, c.conv_out, outputs)
    IN  [ c |-> [c EXCEPT
                  !.conv_out = Stored(r.Y),
                  !.m_hi = Max(@, r.m_hi),
                  !.u_ok = @ /\ r.y_hi <= Size(c.conv_out),
                  !.pc = c.cv.ret],
          sc |-> sc ]

\* the batchnorm after the input convolution, and the tower's two buffers
FwdBN0(c, sc, I, ws) ==
    LET output_channels == I.m_input_channels
    IN  [ c |-> [c EXCEPT
                  !.conv_out = Stored(batchnorm(output_channels, c.conv_out,
                                   Entry(ws.m_batchnorm_means, 0),
                                   Entry(ws.m_batchnorm_stddevs, 0))),
                  !.stem = Stored(batchnorm(output_channels, c.conv_out,
                               Entry(ws.m_batchnorm_means, 0),
                               Entry(ws.m_batchnorm_stddevs, 0))),
                  !.conv_in = Zeros(output_channels * NUM_INTERSECTIONS),
                  !.res = Zeros(output_channels * NUM_INTERSECTIONS),
                  !.log = Append(@, <<"bn_relu", 0>>),
                  !.i = 1,
                  !.pc = "loop"],
          sc |-> sc ]

\* (a variant that also enters the loop with i one past the last entry)
TowerLoopCondInclusive(i, size) == i <= size

\* the test of the tower loop
TowerLoopCond(i, size) == i < size

\* the loop test; in the loop, the swap before the block's first convolution
FwdLoop(c, sc, I, ws) ==
    IF TowerLoopCond(c.i, Size(ws.m_conv_weights))
    THEN [ c |-> [c EXCEPT
                   !.conv_out = c.conv_in, !.conv_in = c.conv_out,
                   !.blk_in = c.conv_out,
                   !.cv = [layer |-> c.i, src |-> "conv_in", ret |-> "bn1", C |-> 0],
                   !.pc = "tin"],
           sc |-> sc ]
    ELSE [ c |-> [c EXCEPT !.pc = "pol"], sc |-> sc ]

\* (a variant that keeps the first convolution's output as the residual)
BlockSwapsKeepFirst(c) ==
    [c EXCEPT !.res = c.conv_out, !.conv_in = c.conv_out, !.conv_out = c.res]

\* std::swap(conv_in, res); std::swap(conv_out, conv_in)
BlockSwaps(c) ==
    [c EXCEPT !.res = c.conv_in, !.conv_in = c.conv_out, !.conv_out = c.res]

\* the batchnorm after the block's first convolution and the two swaps
\* before its second
BlockBN1(c, sc, I, ws) ==
    LET output_channels == I.m_input_channels
        d == [c EXCEPT
               !.conv_out = Stored(batchnorm(output_channels, c.conv_out,
                                Entry(ws.m_batchnorm_means, c.i),
                                Entry(ws.m_batchnorm_stddevs, c.i)))]
    IN  [ c |-> [BlockSwaps(d) EXCEPT
                  !.blk_bn1 = d.conv_out,
                  !.blk_cv2 = BlockSwaps(d).conv_in,
                  !.log = Append(@, <<"bn_relu", c.i>>),
                  !.cv = [layer |-> c.i + 1, src |-> "conv_in", ret |-> "bn2", C |-> 0],
                  !.pc = "tin"],
          sc |-> sc ]

\* the batchnorm without activation after the block's second convolution
BlockBN2(c, sc, I, ws) ==
    LET output_channels == I.m_input_channels
    IN  [ c |-> [c EXCEPT
                  !.conv_out = Stored(batchnorm_no_relu(output_channels, c.conv_out,
                                   Entry(ws.m_batchnorm_means, c.i + 1),
                                   Entry(ws.m_batchnorm_stddevs, c.i + 1))),
                  !.blk_feat = Stored(batchnorm_no_relu(output_channels, c.conv_out,
                                   Entry(ws.m_batchnorm_means, c.i + 1),
                                   Entry(ws.m_batchnorm_stddevs, c.i + 1))),
                  !.log = Append(@, <<"bn", c.i + 1>>),
                  !.pc = "pool"],
          sc |-> sc ]

SePool(c, sc, I) ==
    [ c |-> [c EXCEPT
              !.se_pool = Stored(avg_pool(I.m_input_channels, c.conv_out, c.se_pool)),
              !.pc = "fc1"],
      sc |-> sc ]

SeFc1(c, sc, I, ws) ==
    LET output_channels == I.m_input_channels
    IN  [ c |-> [c EXCEPT
                  !.se_fc1 = Stored(innerproduct(output_channels, output_channels \div 2,
                                 c.se_pool,
                                 Entry(ws.m_se_weights, c.i - 1),
                                 Entry(ws.m_se_biases, c.i - 1), c.se_fc1)),
                  !.fc1_raw = Stored(innerproduct(output_channels, output_channels \div 2,
                                 c.se_pool,
                                 Entry(ws.m_se_weights, c.i - 1),
                                 Entry(ws.m_se_biases, c.i - 1), c.se_fc1)),
                  !.log = Append(@, <<"se_fc1", c.i - 1>>),
                  !.pc = "relu"],
          sc |-> sc ]

SeRelu(c, sc, I) ==
    [ c |-> [c EXCEPT
              !.se_fc1 = Stored(relu(I.m_input_channels \div 2, c.se_fc1)),
              !.pc = "fc2"],
      sc |-> sc ]

SeFc2(c, sc, I, ws) ==
    LET output_channels == I.m_input_channels
    IN  [ c |-> [c EXCEPT
                  !.se_fc2 = Stored(innerproduct(output_channels \div 2, output_channels * 2,
                                 c.se_fc1,
                                 Entry(ws.m_se_weights, c.i),
                                 Entry(ws.m_se_biases, c.i), c.se_fc2)),
                  !.fc2_in = c.se_fc1,
                  !.log = Append(@, <<"se_fc2", c.i>>),
                  !.pc = "fuse"],
          sc |-> sc ]

\* (a variant that rectifies before the additions)
SeCellRectFirst(x, gate, term, r) ==
    lambda_ReLU(Mul(x, lambda_Sig(gate))) + (term + r)

\* one cell of the fused loop: scale, add, rectify
SeCell(x, gate, term, r) ==
    lambda_ReLU(Mul(x, lambda_Sig(gate)) + (term + r))

\* the gating loop, and the loop increment
SeFuse(c, sc, I) ==
    LET output_channels == I.m_input_channels
        out == Stored([idx \in DOMAIN c.conv_out |->
                  IF idx < output_channels * NUM_INTERSECTIONS
                  THEN LET ch == idx \div NUM_INTERSECTIONS
                       IN  SeCell(c.conv_out[idx], Rd(c.se_fc2, ch),
                                  Rd(c.se_fc2, output_channels + ch), Rd(c.res, idx))
                  ELSE c.conv_out[idx]])
    IN  [ c |-> [c EXCEPT
                  !.pre_feat = c.conv_out, !.pre_res = c.res, !.pre_fc2 = c.se_fc2,
                  !.blocks = @ + 1,
                  !.conv_out = out, !.fused = out,
                  !.i = @ + 2,
                  !.pc = "loop"],
          sc |-> sc ]

HeadPol(c, sc, I) ==
    [ c |-> [c EXCEPT
              !.output_pol = Stored(convolve1(OUTPUTS_POLICY, c.conv_out, I.m_conv_pol_w,
                                 I.m_conv_pol_b, c.output_pol)),
              !.pol_in = c.conv_out,
              !.log = Append(@, <<"pol", 0>>),
              !.pc = "val"],
      sc |-> sc ]

HeadVal(c, sc, I) ==
    [ c |-> [c EXCEPT
              !.output_val = Stored(convolve1(OUTPUTS_VALUE, c.conv_out, I.m_conv_val_w,
                                 I.m_conv_val_b, c.output_val)),
              !.val_in = c.conv_out,
              !.log = Append(@, <<"val", 0>>),
              !.pc = "done"],
      sc |-> sc ]

\* the next statement of a call
FwdStep(c, sc, I, ws) ==
    CASE c.pc = "alloc" -> FwdAlloc(c, sc, I)
      [] c.pc = "tin" -> ConvTin(c, sc, I, ws)
      [] c.pc = "mm" -> ConvMM(c, sc, I, ws)
      [] c.pc = "tout" -> ConvTout(c, sc, I)
      [] c.pc = "bn0" -> FwdBN0(c, sc, I, ws)
      [] c.pc = "loop" -> FwdLoop(c, sc, I, ws)
      [] c.pc = "bn1" -> BlockBN1(c, sc, I, ws)
      [] c.pc = "bn2" -> BlockBN2(c, sc, I, ws)
      [] c.pc = "pool" -> SePool(c, sc, I)
      [] c.pc = "fc1" -> SeFc1(c, sc, I, ws)
      [] c.pc = "relu" -> SeRelu(c, sc, I)
      [] c.pc = "fc2" -> SeFc2(c, sc, I, ws)
      [] c.pc = "fuse" -> SeFuse(c, sc, I)
      [] c.pc = "pol" -> HeadPol(c, sc, I)
      [] c.pc = "val" -> HeadVal(c, sc, I)
      [] OTHER -> [c |-> c, sc |-> sc]

RECURSIVE FwdRun(_, _, _, _)
\* a call run to its end on scratch buffers of its own
FwdRun(c, sc, I, ws) ==
    IF c.pc = "done" THEN c
    ELSE LET r == FwdStep(c, sc, I, ws)
         IN  FwdRun(r.c, r.sc, I, ws)

(***************************************************************************)
(* Test tensors.                                                           *)
(***************************************************************************)
\* a plane stack of n cells with values in -3..3, different for each seed
Tensor(n, seed) == [i \in 0 .. n - 1 |-> Flt(((i * 5 + seed * 3 + (i \div 7)) % 7) - 3)]

\* n weights between -r/FX and r/FX
Weights(n, seed, r) ==
    [i \in 0 .. n - 1 |-> ((i * 5 + seed * 3 + (i \div 7)) % (2 * r + 1)) - r]

\* a well-formed weight set with F filters and N residual blocks, as the
\* loader builds it
WeightSet(F, N, seed) ==
    [ m_conv_weights |->
        [l \in 0 .. 2 * N |->
            Weights(WINOGRAD_TILE * (IF l = 0 THEN INPUT_CHANNELS ELSE F) * F,
                    seed + l, 2)],
      m_batchnorm_means |->
        [l \in 0 .. 2 * N |-> [ch \in 0 .. F - 1 |-> (((ch + l + seed) % 3) - 1) * 2]],
      m_batchnorm_stddevs |->
        [l \in 0 .. 2 * N |-> [ch \in 0 .. F - 1 |-> 3 + ((ch + l + seed) % 3)]],
      m_se_weights |->
        [e \in 0 .. 2 * N - 1 |->
            Weights(IF e % 2 = 0 THEN (F \div 2) * F ELSE (2 * F) * (F \div 2),
                    seed + e, 24)],
      m_se_biases |->
        [e \in 0 .. 2 * N - 1 |->
            Weights(IF e % 2 = 0 THEN F \div 2 ELSE 2 * F, seed + e, 16)],
      m_conv_pol_w |-> Weights(OUTPUTS_POLICY * F, seed, 8),
      m_conv_val_w |-> Weights(OUTPUTS_VALUE * F, seed + 1, 8) ]

\* the weight sets the loader has built, named by <<filters, blocks>>: one
\* for every tower height, with 2, 3, ..., MaxFilters, 2, ... filters
Nets == {<<2 + (N % (MaxFilters - 1)), N>> : N \in 0 .. MaxBlocks}
Store == [wid \in Nets |-> WeightSet(wid[1], wid[2], wid[1] + wid[2])]

\* the positions a caller evaluates
Inputs == 1 .. 2
InputOf(in_id) == Tensor(INPUT_CHANNELS * NUM_INTERSECTIONS, in_id)

Threads == 1 .. 2

VARIABLES
    tin,      \* a stand-alone call of winograd_transform_in
    tout,     \* a stand-alone call of winograd_transform_out
    inst,     \* the members of the CPUPipe
    wstore,   \* the shared weight sets, by name
    calls,    \* the locals of each thread's forward call
    scratch,  \* V and M: scratch[0] is storage of the CPUPipe itself,
              \* scratch[t] storage of thread t's call
    first,    \* the input and the outputs of the first call finished
              \* since the pipeline was last configured
    solo      \* the outputs of each input's call run alone

vars == <<tin, tout, inst, wstore, calls, scratch, first, solo>>
pipe == <<inst, wstore, calls, scratch, first, solo>>

NoOutputs == [in_id |-> 0, pol |-> Zeros(0), val |-> Zeros(0)]

PipeIdle ==
    /\ inst = InstInit
    /\ wstore = [wid \in {NoWeights} |-> 0]
    /\ calls = [t \in Threads |-> CallIdle]
    /\ scratch = [r \in {0} \cup Threads |-> ScratchNone]
    /\ first = NoOutputs
    /\ solo = [in_id \in Inputs |-> NoOutputs]

(***************************************************************************)
(* SpecIn: one call of winograd_transform_in, a step for every tile.       *)
(***************************************************************************)
InitIn ==
    /\ \E C \in 1 .. MaxC, seed \in 0 .. 1, spare \in 0 .. 1 :
        tin = TinInit(Tensor(C * NUM_INTERSECTIONS, seed),
                      Junk(WINOGRAD_TILE * (C + spare) * WINOGRAD_P), C)
    /\ tout = ToutInit(Zeros(0), Zeros(0), 0)
    /\ PipeIdle

TinLoadStep == tin.pc = "load" /\ tin' = TinLoad(tin) /\ UNCHANGED <<tout, pipe>>
TinTileStep == tin.pc = "tile" /\ tin' = TinTile(tin) /\ UNCHANGED <<tout, pipe>>
TinFlushStep ==
    /\ tin.pc = "flush" /\ TinFlushCond(tin)
    /\ tin' = TinAdvance(TinFlush(tin)) /\ UNCHANGED <<tout, pipe>>
TinNoFlushStep ==
    /\ tin.pc = "flush" /\ ~TinFlushCond(tin)
    /\ tin' = TinAdvance(tin) /\ UNCHANGED <<tout, pipe>>

NextIn == TinLoadStep \/ TinTileStep \/ TinFlushStep \/ TinNoFlushStep

SpecIn == InitIn /\ [][NextIn]_vars

\* channel ch of a plane stack, zero-padded by one cell, as a Wpad x Wpad plane
PadPlane(in, ch) ==
    [p \in 0 .. Wpad * Wpad - 1 |->
        LET y == p \div Wpad
            x == p % Wpad
        IN  IF y >= 1 /\ y <= BOARD_SIZE /\ x >= 1 /\ x <= BOARD_SIZE
            THEN in[ch * NUM_INTERSECTIONS + (y - 1) * BOARD_SIZE + (x - 1)]
            ELSE 0]

\* C3: when winograd_transform_in returns, V[i*C*P + ch*P + block_y*WTILES +
\* block_x] holds element i of the transform of the 6x6 window at origin
\* (4*block_y, 4*block_x) of channel ch's zero-padded plane, every such entry
\* was written exactly once, nothing else was written, and no tile is left
\* in the staging buffer.
C3_TransformInLayout ==
    tin.pc = "done" =>
        /\ tin.buffer_entries = 0
        /\ \A ch \in 0 .. tin.C - 1, block_y \in 0 .. WINOGRAD_WTILES - 1,
              block_x \in 0 .. WINOGRAD_WTILES - 1 :
              LET t == WinoInTile(PadPlane(tin.in, ch),
                                  WINOGRAD_M * block_y, WINOGRAD_M * block_x)
              IN  \A i \in 0 .. WINOGRAD_TILE - 1 :
                      LET idx == i * tin.C * WINOGRAD_P + ch * WINOGRAD_P
                                   + block_y * WINOGRAD_WTILES + block_x
                      IN  tin.V[idx] = t[i] /\ tin.wcount[idx] = 1
        /\ \A idx \in DOMAIN tin.V :
              idx >= WINOGRAD_TILE * tin.C * WINOGRAD_P => tin.wcount[idx] = 0
        /\ tin.buf_hi <= Size(tin.buffer) /\ tin.v_hi <= Size(tin.V)

\* a finished call whose tiles filled one staging batch across several
\* channels and left a last, partial batch
C3_Witness ==
    /\ tin.pc = "done"
    /\ tin.C * WINOGRAD_P > buffersize
    /\ (tin.C * WINOGRAD_P) % buffersize # 0
    /\ WINOGRAD_P < buffersize
    /\ tin.V[WINOGRAD_TILE * tin.C * WINOGRAD_P - 1] # Uninit

(***************************************************************************)
(* SpecOut: one call of winograd_transform_out, a step for every tile.     *)
(***************************************************************************)
InitOut ==
    /\ \E K \in 1 .. MaxC, seed \in 0 .. 1, spare \in 0 .. 1 :
        tout = ToutInit(Tensor(WINOGRAD_TILE * K * WINOGRAD_P, seed),
                        Junk((K + spare) * NUM_INTERSECTIONS), K)
    /\ tin = TinInit(Zeros(0), Zeros(0), 0)
    /\ PipeIdle

ToutTileStep ==
    tout.pc = "tile" /\ tout' = ToutTile(tout) /\ UNCHANGED <<tin, pipe>>

NextOut == ToutTileStep

SpecOut == InitOut /\ [][NextOut]_vars

\* C4: winograd_transform_out writes Y only inside [0, K*H*W); when it
\* returns, every one of the K*H*W cells was written exactly once, and cell
\* (4*block_y+i, 4*block_x+j) of channel k holds element (i, j) of the
\* transform of the tile gathered from M at tile index block_y*WTILES +
\* block_x, the index winograd_transform_in gives the window at that origin.
C4_TransformOutInBounds ==
    /\ tout.y_hi <= tout.K * NUM_INTERSECTIONS
    /\ tout.m_hi <= Size(tout.M)
    /\ \A idx \in DOMAIN tout.Y :
          idx >= tout.K * NUM_INTERSECTIONS => tout.wcount[idx] = 0
    /\ tout.pc = "done" =>
          \A k \in 0 .. tout.K - 1, block_y \in 0 .. WINOGRAD_WTILES - 1,
             block_x \in 0 .. WINOGRAD_WTILES - 1 :
             LET o == WinoOutTile(tout.M, tout.K, k,
                                  block_y * WINOGRAD_WTILES + block_x)
             IN  \A i \in 0 .. WINOGRAD_M - 1, j \in 0 .. WINOGRAD_M - 1 :
                    LET y == WINOGRAD_M * block_y + i
                        x == WINOGRAD_M * block_x + j
                        idx == k * NUM_INTERSECTIONS + y * BOARD_SIZE + x
                    IN  (y < BOARD_SIZE /\ x < BOARD_SIZE) =>
                            /\ tout.Y[idx] = o[i * WINOGRAD_M + j]
                            /\ tout.wcount[idx] = 1

\* a finished call that dropped cells of boundary tiles
C4_Witness ==
    tout.pc = "done" /\ tout.K > 1 /\ tout.clipped > 0

(***************************************************************************)
(* SpecFwd: one thread configures the pipeline and calls forward, any      *)
(* number of times; a step for every statement of forward.                 *)
(***************************************************************************)
\* the storage that holds V and M during thread t's call: the call's own
ScratchOfShared(t) == 0

ScratchOf(t) == t

\* the caller's contract: the pipeline is configured, for the loaded net
Ready ==
    /\ inst.m_weights \in Nets
    /\ inst.m_input_channels = inst.m_weights[1]
    /\ inst.outputs = inst.m_weights[1]

Quiet == \A t \in Threads : calls[t].pc = "idle"

InitFwd ==
    /\ tin = TinInit(Zeros(0), Zeros(0), 0)
    /\ tout = ToutInit(Zeros(0), Zeros(0), 0)
    /\ inst = InstInit
    /\ wstore = Store
    /\ calls = [t \in Threads |-> CallIdle]
    /\ scratch = [r \in {0} \cup Threads |-> ScratchNone]
    /\ first = NoOutputs
    /\ solo = [in_id \in Inputs |-> NoOutputs]

Initialize(channels) ==
    /\ Quiet
    /\ inst' = initialize(inst, channels)
    /\ first' = NoOutputs
    /\ UNCHANGED <<tin, tout, wstore, calls, scratch, solo>>

PushWeights(wid, outputs) ==
    /\ Quiet
    /\ inst' = push_weights(inst, outputs, wid, wstore[wid])
    /\ first' = NoOutputs
    /\ UNCHANGED <<tin, tout, wstore, calls, scratch, solo>>

Call(t, in_id) ==
    /\ calls[t].pc = "idle"
    /\ Ready
    /\ calls' = [calls EXCEPT ![t] =
                    [FwdCall(@, in_id, InputOf(in_id), first.in_id = in_id)
                        EXCEPT !.joined = \E u \in Threads \ {t} :
                                              calls[u].pc \notin {"idle", "done"}]]
    /\ UNCHANGED <<tin, tout, inst, wstore, scratch, first, solo>>

\* thread t has executed a statement with result r
Exec(t, r) ==
    /\ calls' = [calls EXCEPT ![t] = r.c]
    /\ scratch' = [scratch EXCEPT ![ScratchOf(t)] = r.sc]
    /\ first' = IF r.c.pc = "done" /\ first = NoOutputs
                THEN [in_id |-> r.c.in_id,
                      pol |-> r.c.output_pol, val |-> r.c.output_val]
                ELSE first
    /\ UNCHANGED <<tin, tout, inst, wstore, solo>>

Alloc(t) ==
    /\ calls[t].pc = "alloc"
    /\ Exec(t, FwdAlloc(calls[t], scratch[ScratchOf(t)], inst))

TransformIn(t) ==
    /\ calls[t].pc = "tin"
    /\ Exec(t, ConvTin(calls[t], scratch[ScratchOf(t)], inst, wstore[inst.m_weights]))

Sgemm(t) ==
    /\ calls[t].pc = "mm"
    /\ Exec(t, ConvMM(calls[t], scratch[ScratchOf(t)], inst, wstore[inst.m_weights]))

TransformOut(t) ==
    /\ calls[t].pc = "tout"
    /\ Exec(t, ConvTout(calls[t], scratch[ScratchOf(t)], inst))

InputBN(t) ==
    /\ calls[t].pc = "bn0"
    /\ Exec(t, FwdBN0(calls[t], scratch[ScratchOf(t)], inst, wstore[inst.m_weights]))

TowerLoop(t) ==
    /\ calls[t].pc = "loop"
    /\ Exec(t, FwdLoop(calls[t], scratch[ScratchOf(t)], inst, wstore[inst.m_weights]))

FirstBN(t) ==
    /\ calls[t].pc = "bn1"
    /\ Exec(t, BlockBN1(calls[t], scratch[ScratchOf(t)], inst, wstore[inst.m_weights]))

SecondBN(t) ==
    /\ calls[t].pc = "bn2"
    /\ Exec(t, BlockBN2(calls[t], scratch[ScratchOf(t)], inst, wstore[inst.m_weights]))

Pool(t) ==
    /\ calls[t].pc = "pool"
    /\ Exec(t, SePool(calls[t], scratch[ScratchOf(t)], inst))

Dense1(t) ==
    /\ calls[t].pc = "fc1"
    /\ Exec(t, SeFc1(calls[t], scratch[ScratchOf(t)], inst, wstore[inst.m_weights]))

Rectify(t) ==
    /\ calls[t].pc = "relu"
    /\ Exec(t, SeRelu(calls[t], scratch[ScratchOf(t)], inst))

Dense2(t) ==
    /\ calls[t].pc = "fc2"
    /\ Exec(t, SeFc2(calls[t], scratch[ScratchOf(t)], inst, wstore[inst.m_weights]))

Fuse(t) ==
    /\ calls[t].pc = "fuse"
    /\ Exec(t, SeFuse(calls[t], scratch[ScratchOf(t)], inst))

PolicyHead(t) ==
    /\ calls[t].pc = "pol"
    /\ Exec(t, HeadPol(calls[t], scratch[ScratchOf(t)], inst))

ValueHead(t) ==
    /\ calls[t].pc = "val"
    /\ Exec(t, HeadVal(calls[t], scratch[ScratchOf(t)], inst))

Return(t) ==
    /\ calls[t].pc = "done"
    /\ calls' = [calls EXCEPT ![t] = CallIdle]
    /\ scratch' = [scratch EXCEPT ![t] = ScratchNone]
    /\ UNCHANGED <<tin, tout, inst, wstore, first, solo>>

NextFwd ==
    \/ \E channels \in 2 .. MaxFilters : Initialize(channels)
    \/ \E wid \in Nets : \E outputs \in {1, wid[1]} : PushWeights(wid, outputs)
    \/ \E in_id \in Inputs : Call(1, in_id)
    \/ Alloc(1) \/ TransformIn(1) \/ Sgemm(1) \/ TransformOut(1)
    \/ InputBN(1) \/ TowerLoop(1) \/ FirstBN(1) \/ SecondBN(1)
    \/ Pool(1) \/ Dense1(1) \/ Rectify(1) \/ Dense2(1) \/ Fuse(1)
    \/ PolicyHead(1) \/ ValueHead(1)
    \/ Return(1)

SpecFwd == InitFwd /\ [][NextFwd]_vars


(***************************************************************************)
(* The residual blocks of forward.                                         *)
(***************************************************************************)
\* the state just after block number c.blocks has been fused
JustFused(c) == c.pc = "loop" /\ c.blocks > 0

\* C1, as stated: at the fuse of every residual block the res buffer holds
\* the output of the block's first convolution and BN-with-activation.
C1_ResIsFirstConvOutput ==
    \A t \in Threads :
        JustFused(calls[t]) => calls[t].pre_res = calls[t].blk_bn1

\* C1, amended: in every residual block the first convolution reads the
\* block's input (the stem's output for the first block, the previous
\* block's fused result for a later one), the second convolution reads the
\* first's output after BN-with-activation, and at the fuse the feature
\* operand is the second convolution's output after BN-without-activation
\* while res holds the block's input, the tensor the first convolution read.
C1_ResIsBlockInput ==
    \A t \in Threads :
        LET c == calls[t]
        IN  /\ (c.pc = "mm" /\ c.cv.layer % 2 = 1) =>
                  /\ c.cv_in = c.blk_in
                  /\ c.blk_in = IF c.blocks = 0 THEN c.stem ELSE c.fused
            /\ (c.pc = "mm" /\ c.cv.layer > 0 /\ c.cv.layer % 2 = 0) =>
                  /\ c.cv_in = c.blk_bn1
                  /\ c.blk_cv2 = c.blk_bn1
            /\ JustFused(c) =>
                  /\ c.pre_feat = c.blk_feat
                  /\ c.pre_res = c.blk_in
                  /\ c.conv_out = c.fused

\* a second block has been fused; its residual is neither the stem's output
\* nor the output of its own first convolution
C1_Witness ==
    \E t \in Threads :
        /\ JustFused(calls[t])
        /\ calls[t].blocks >= 2
        /\ calls[t].pre_res # calls[t].blk_bn1
        /\ calls[t].pre_res # calls[t].stem

(***************************************************************************)
(* The order of the layers and the weight entries they use.                *)
(***************************************************************************)
\* the layers of a tower of N blocks with the entry each one uses
ExpectedLog(N) ==
    [n \in 1 .. 6 * N + 4 |->
        IF n = 1 THEN <<"conv", 0>>
        ELSE IF n = 2 THEN <<"bn_relu", 0>>
        ELSE IF n = 6 * N + 3 THEN <<"pol", 0>>
        ELSE IF n = 6 * N + 4 THEN <<"val", 0>>
        ELSE LET b == (n - 3) \div 6
                 j == (n - 3) % 6
             IN  CASE j = 0 -> <<"conv", 2 * b + 1>>
                   [] j = 1 -> <<"bn_relu", 2 * b + 1>>
                   [] j = 2 -> <<"conv", 2 * b + 2>>
                   [] j = 3 -> <<"bn", 2 * b + 2>>
                   [] j = 4 -> <<"se_fc1", 2 * b>>
                   [] j = 5 -> <<"se_fc2", 2 * b + 1>>]

\* the entry a layer used exists in the list it was taken from
EntryExists(e, ws) ==
    CASE e[1] = "conv" -> e[2] < Size(ws.m_conv_weights)
      [] e[1] \in {"bn_relu", "bn"} ->
            e[2] < Size(ws.m_batchnorm_means) /\ e[2] < Size(ws.m_batchnorm_stddevs)
      [] e[1] \in {"se_fc1", "se_fc2"} ->
            e[2] < Size(ws.m_se_weights) /\ e[2] < Size(ws.m_se_biases)
      [] OTHER -> TRUE

\* C2: with 1 + 2N convolution entries forward runs the input convolution
\* and BN-with-activation on entry 0, then N blocks in order, block b on
\* convolution/BN entries 2b+1 (with activation) and 2b+2 (without) and SE
\* entries 2b and 2b+1, then the two heads and nothing after them; every
\* entry accessed exists; both heads read the same final tower output.
C2_LayerOrder ==
    \A t \in Threads :
        calls[t].pc # "idle" =>
            LET c == calls[t]
                ws == wstore[inst.m_weights]
                N == (Size(ws.m_conv_weights) - 1) \div 2
            IN  /\ Len(c.log) <= 6 * N + 4
                /\ \A n \in 1 .. Len(c.log) :
                      c.log[n] = ExpectedLog(N)[n] /\ EntryExists(c.log[n], ws)
                /\ c.blocks <= N
                /\ c.pc = "done" =>
                      /\ Len(c.log) = 6 * N + 4
                      /\ c.blocks = N
                      /\ c.pol_in = c.val_in
                      /\ c.pol_in = IF N = 0 THEN c.stem ELSE c.fused

\* a call on a tower of two blocks has finished
C2_Witness ==
    \E t \in Threads :
        /\ calls[t].pc = "done"
        /\ calls[t].blocks = 2
        /\ Len(calls[t].log) = 16
        /\ calls[t].pol_in = calls[t].fused
        /\ calls[t].pol_in # calls[t].stem

(***************************************************************************)
(* The input planes and the scratch buffers.                               *)
(***************************************************************************)
\* the input convolution's transform-in has run
InputRead(c) == c.log # <<>>

\* C5, as stated: forward reads the input array only below
\* m_input_channels * NUM_INTERSECTIONS, the input convolution consuming as
\* many planes as the count passed to initialize.
C5_InputPlanesAreInitializeCount ==
    \A t \in Threads :
        InputRead(calls[t]) =>
            /\ calls[t].in_planes = inst.m_input_channels
            /\ calls[t].in_hi <= inst.m_input_channels * NUM_INTERSECTIONS

\* C5, amended: forward reads the input array only below C0 *
\* NUM_INTERSECTIONS, where C0 is the length of convolution entry 0 divided
\* by (the count passed to initialize * 36); for a well-formed weight set C0
\* is INPUT_CHANNELS, whatever the count passed to initialize, and the reads
\* stay inside the caller's array of INPUT_CHANNELS planes.
C5_InputPlanesAreLayerZeroChannels ==
    \A t \in Threads :
        InputRead(calls[t]) =>
            LET c == calls[t]
                U0 == wstore[inst.m_weights].m_conv_weights[0]
                C0 == Size(U0) \div (inst.m_input_channels * WINOGRAD_TILE)
            IN  /\ c.in_planes = C0
                /\ C0 = INPUT_CHANNELS
                /\ c.in_hi = C0 * NUM_INTERSECTIONS
                /\ c.in_hi <= Size(c.input)

\* a call on a tower with fewer filters than input planes has finished
C5_Witness ==
    \E t \in Threads :
        /\ calls[t].pc = "done"
        /\ inst.m_input_channels < INPUT_CHANNELS
        /\ calls[t].in_hi = INPUT_CHANNELS * NUM_INTERSECTIONS

\* C6: every index of V that winograd_transform_in writes and winograd_sgemm
\* reads, and every index of M that winograd_sgemm writes and
\* winograd_transform_out reads, in the input convolution and in every
\* residual convolution, is below the length allocated at the start of the
\* call, as are the indices into the weights, the source planes and the
\* output planes; the largest layer fills V and M to the end.
C6_ScratchSuffices ==
    \A t \in Threads :
        calls[t].pc \notin {"idle", "alloc"} =>
            LET c == calls[t]
                sc == scratch[ScratchOf(t)]
                filters == inst.m_input_channels
            IN  /\ Size(sc.V) = WINOGRAD_TILE * Max(filters, INPUT_CHANNELS) * WINOGRAD_P
                /\ Size(sc.M) = WINOGRAD_TILE * filters * WINOGRAD_P
                /\ c.v_hi <= Size(sc.V)
                /\ c.m_hi <= Size(sc.M)
                /\ c.u_ok
                /\ c.pc = "done" => c.v_hi = Size(sc.V) /\ c.m_hi = Size(sc.M)

\* a call with fewer filters than input planes has run a residual block
\* after the input convolution filled V to the end
C6_Witness ==
    \E t \in Threads :
        /\ calls[t].pc = "done"
        /\ calls[t].blocks >= 1
        /\ inst.m_input_channels < INPUT_CHANNELS
        /\ calls[t].v_hi = WINOGRAD_TILE * INPUT_CHANNELS * WINOGRAD_P
        /\ calls[t].m_hi = WINOGRAD_TILE * inst.m_input_channels * WINOGRAD_P

(***************************************************************************)
(* The squeeze-and-excitation step.                                        *)
(***************************************************************************)
\* C7: in the SE step of a block with C channels the first dense layer
\* yields C/2 values, floored at zero before the second dense layer reads
\* them; the second yields 2C values; every cell becomes
\* rect(feature * sigmoid(fc2[c]) + fc2[C + c] + res), scaled before the
\* additions and rectified last.
C7_SqueezeExcite ==
    \A t \in Threads :
        LET c == calls[t]
            C == inst.m_input_channels
        IN  /\ c.pc = "fc2" =>
                  /\ Size(c.fc1_raw) = C \div 2
                  /\ Size(c.se_fc1) = C \div 2
                  /\ \A n \in 0 .. (C \div 2) - 1 :
                        c.se_fc1[n] = IF c.fc1_raw[n] > 0 THEN c.fc1_raw[n] ELSE 0
            /\ c.pc = "fuse" =>
                  /\ c.fc2_in = c.se_fc1
                  /\ \A n \in 0 .. (C \div 2) - 1 : c.fc2_in[n] >= 0
                  /\ Size(c.se_fc2) = 2 * C
            /\ JustFused(c) =>
                  /\ Size(c.fused) = C * NUM_INTERSECTIONS
                  /\ \A ch \in 0 .. C - 1, pos \in 0 .. NUM_INTERSECTIONS - 1 :
                        LET idx == ch * NUM_INTERSECTIONS + pos
                            sum == Mul(c.pre_feat[idx], lambda_Sig(c.pre_fc2[ch]))
                                     + c.pre_fc2[C + ch] + c.pre_res[idx]
                        IN  c.fused[idx] = IF sum > 0 THEN sum ELSE 0

\* a block has been fused in which the first dense layer had a negative
\* value to floor and a cell with a negative feature came out positive
C7_Witness ==
    \E t \in Threads :
        LET c == calls[t]
        IN  /\ JustFused(c)
            /\ \E n \in DOMAIN c.fc1_raw : c.fc1_raw[n] < 0
            /\ \E idx \in DOMAIN c.fused : c.pre_feat[idx] < 0 /\ c.fused[idx] > 0

(***************************************************************************)
(* What forward leaves alone, and the head biases.                         *)
(***************************************************************************)
\* C8: a statement of a forward call leaves the members of the instance,
\* the shared weight sets and every buffer the instance owns unchanged, and
\* a call that is given the input of the first call finished since the
\* instance was configured ends with that call's policy and value outputs.
C8_ForwardLeavesMembers ==
    [][\A t \in Threads :
          (calls[t].pc \notin {"idle", "done"} /\ calls'[t] # calls[t]) =>
              /\ inst' = inst
              /\ wstore' = wstore
              /\ scratch'[0] = scratch[0]
              /\ (calls'[t].pc = "done" /\ calls[t].repeat) =>
                    /\ first.in_id = calls[t].in_id
                    /\ calls'[t].output_pol = first.pol
                    /\ calls'[t].output_val = first.val]_vars

\* a later call with the first call's input has finished with its outputs
C8_Witness ==
    \E t \in Threads :
        /\ calls[t].pc = "done"
        /\ calls[t].repeat
        /\ calls[t].blocks >= 1
        /\ calls[t].output_pol = first.pol
        /\ calls[t].output_val = first.val
        /\ \E idx \in DOMAIN first.pol : first.pol[idx] # 0
        /\ \E idx \in DOMAIN first.val : first.val[idx] # 0

\* the 1x1 convolution of the planes x with the weights w, nothing added
PlainConv1(w, x, o, b, channels) ==
    SumF([c \in 0 .. channels - 1 |->
            Mul(w[o * channels + c],
                im2col1(channels, x)[c * NUM_INTERSECTIONS + b])], channels)

\* C10: once push_weights(_, _, outputs, weights) has been called, each
\* head's bias array has length (head weight length) / outputs and holds
\* zeros only, after every later push_weights and forward call as well;
\* while a forward call runs, biases[o] exists for every output channel o of
\* either head, and each head's output is the plain 1x1 convolution of the
\* tower output.
C10_HeadBiasesZero ==
    /\ inst.outputs > 0 =>
          /\ Size(inst.m_conv_pol_b) = Size(inst.m_conv_pol_w) \div inst.outputs
          /\ Size(inst.m_conv_val_b) = Size(inst.m_conv_val_w) \div inst.outputs
          /\ \A o \in DOMAIN inst.m_conv_pol_b : inst.m_conv_pol_b[o] = 0
          /\ \A o \in DOMAIN inst.m_conv_val_b : inst.m_conv_val_b[o] = 0
    /\ \A t \in Threads :
          calls[t].pc # "idle" =>
              /\ \A o \in 0 .. OUTPUTS_POLICY - 1 : o \in DOMAIN inst.m_conv_pol_b
              /\ \A o \in 0 .. OUTPUTS_VALUE - 1 : o \in DOMAIN inst.m_conv_val_b
              /\ calls[t].pc = "done" =>
                    \A b \in 0 .. NUM_INTERSECTIONS - 1 :
                        /\ \A o \in 0 .. OUTPUTS_POLICY - 1 :
                              calls[t].output_pol[o * NUM_INTERSECTIONS + b] =
                                  PlainConv1(inst.m_conv_pol_w, calls[t].pol_in, o, b,
                                             inst.m_input_channels)
                        /\ \A o \in 0 .. OUTPUTS_VALUE - 1 :
                              calls[t].output_val[o * NUM_INTERSECTIONS + b] =
                                  PlainConv1(inst.m_conv_val_w, calls[t].val_in, o, b,
                                             inst.m_input_channels)

\* a forward call has finished after push_weights replaced head weights of
\* another size
C10_Witness ==
    /\ inst.resized
    /\ \E t \in Threads :
          /\ calls[t].pc = "done"
          /\ \E idx \in DOMAIN calls[t].output_pol : calls[t].output_pol[idx] # 0

(***************************************************************************)
(* Two threads call forward on one configured instance, thread t on        *)
(* position t.                                                             *)
(***************************************************************************)
\* the outputs of a call with input in_id run alone on members I
Solo(I, in_id) ==
    LET c == FwdRun(FwdCall(CallIdle, in_id, InputOf(in_id), FALSE), ScratchNone,
                    I, Store[I.m_weights])
    IN  [in_id |-> in_id, pol |-> c.output_pol, val |-> c.output_val]

\* the instance serves a net of at most one block
InitConc ==
    /\ tin = TinInit(Zeros(0), Zeros(0), 0)
    /\ tout = ToutInit(Zeros(0), Zeros(0), 0)
    /\ \E wid \in {n \in Nets : n[2] <= 1} :
          inst = push_weights(initialize(InstInit, wid[1]), wid[1], wid, Store[wid])
    /\ wstore = Store
    /\ calls = [t \in Threads |-> CallIdle]
    /\ scratch = [r \in {0} \cup Threads |-> ScratchNone]
    /\ first = NoOutputs
    /\ solo = [in_id \in Inputs |-> Solo(inst, in_id)]

NextConc ==
    \E t \in Threads :
        \/ Call(t, t)
        \/ Alloc(t) \/ TransformIn(t) \/ Sgemm(t) \/ TransformOut(t)
        \/ InputBN(t) \/ TowerLoop(t) \/ FirstBN(t) \/ SecondBN(t)
        \/ Pool(t) \/ Dense1(t) \/ Rectify(t) \/ Dense2(t) \/ Fuse(t)
        \/ PolicyHead(t) \/ ValueHead(t)

SpecConc == InitConc /\ [][NextConc]_vars

\* C9: under every interleaving of the statements of two forward calls,
\* nothing outside a call's own buffers and output arrays is written: the
\* instance's own storage stays untouched, a thread that has not called
\* has untouched buffers, and a finished call holds the outputs of the same
\* call run alone.
C9_CallsAreIndependent ==
    /\ scratch[0] = ScratchNone
    /\ \A t \in Threads :
          /\ calls[t].pc = "idle" => scratch[t] = ScratchNone
          /\ calls[t].pc = "done" =>
                /\ calls[t].output_pol = solo[calls[t].in_id].pol
                /\ calls[t].output_val = solo[calls[t].in_id].val

\* two calls on different inputs have finished, one of them begun while the
\* other was running, with different outputs
C9_Witness ==
    /\ \A t \in Threads : calls[t].pc = "done" /\ calls[t].blocks = 1
    /\ \E t \in Threads : calls[t].joined
    /\ calls[1].in_id # calls[2].in_id
    /\ calls[1].output_pol # calls[2].output_pol
    /\ calls[1].output_val # calls[2].output_val

=============================================================================
